---------------------------- MODULE Spec2Model ----------------------------
(***************************************************************************)
(* A model of the keyboard-layout tray indicator of src/src/main.rs:       *)
(* layout-name resolution, icon-cache construction, the bounded docking    *)
(* retry loop, the initial rendering and the event loop.                   *)
(*                                                                         *)
(* Strings are sequences of one-character strings, so that to_lowercase,   *)
(* contains and chars().take(2) are computed and not assumed.              *)
(***************************************************************************)
EXTENDS Integers, Sequences, FiniteSets, TLC

VARIABLES
    pc,             \* position of main
    error,          \* the Err main returned with, "None" while it runs
    xkb_groups,     \* environment: value_list.groups of the xkb_get_names reply
    tray_at,        \* environment: first dock attempt at which the tray selection has an owner
    layout_names,   \* main: layout_names
    icon_cache,     \* main: icon_cache, a function from names to pixel buffers
    renders,        \* number of render_icon_bgra calls made so far
    i,              \* main: loop variable of the docking loop
    docked,         \* main: docked
    attempts,       \* number of dock_window_to_tray calls made so far
    waits,          \* number of thread::sleep calls made so far
    dock_conn_err,  \* whether a request of a dock attempt reported a protocol error
    sent,           \* the client messages sent so far, as [to, window] records
    mapped,         \* whether map_window was issued
    current_group,  \* main: current_group
    prev_group,     \* current_group as it was when the last event was delivered
    event,          \* main: event, the last event wait_for_event returned
    drawn,          \* the buffers draw_icon was invoked with during the last step
    displayed,      \* the buffer last transferred into the window by put_image
    gc_live,        \* graphics contexts created and not freed
    batch_pos,      \* how much of ExposeBatch the most recent events have matched
    batch_draws     \* draw_icon invocations made by those matched events

vars == << pc, error, xkb_groups, tray_at, layout_names, icon_cache, renders, i,
           docked, attempts, waits, dock_conn_err, sent, mapped, current_group,
           prev_group, event, drawn, displayed, gc_live, batch_pos, batch_draws >>

---------------------------------------------------------------------------
(* Bounds of the model.                                                    *)

\* Longest group list the xkb_get_names reply carries; group indices of
\* notifications range over 0..MaxGroups, so the largest is always out of bounds.
MaxGroups == 2

\* Largest count field of an Expose event.
MaxCount == 2

\* Longest generated layout name the abbreviation is applied to.
MaxNameLen == 3

---------------------------------------------------------------------------
(* Program constants.                                                      *)

ICON_SIZE == 24

max_retries == 10

\* render_icon_bgra pushes b, g, r and a zero byte for every pixel.
BytesPerPixel == 4

\* x11rb::NONE, the owner of a selection nobody owns.
NONE == "NONE"

\* The window of the tray manager when there is one, and the indicator's window.
TrayWin == "tray_manager_window"
win_id == "indicator_window"

---------------------------------------------------------------------------
(* Strings.                                                                *)

UpperChars == << "A","B","C","D","E","F","G","H","I","J","K","L","M",
                 "N","O","P","Q","R","S","T","U","V","W","X","Y","Z" >>
LowerChars == << "a","b","c","d","e","f","g","h","i","j","k","l","m",
                 "n","o","p","q","r","s","t","u","v","w","x","y","z" >>

IndexIn(c, chars) == CHOOSE n \in 1..Len(chars) : chars[n] = c

IsIn(c, chars) == \E n \in 1..Len(chars) : chars[n] = c

to_lowercase_char(c) == IF IsIn(c, UpperChars) THEN LowerChars[IndexIn(c, UpperChars)] ELSE c

to_uppercase_char(c) == IF IsIn(c, LowerChars) THEN UpperChars[IndexIn(c, LowerChars)] ELSE c

to_lowercase(s) == [n \in 1..Len(s) |-> to_lowercase_char(s[n])]

to_uppercase(s) == [n \in 1..Len(s) |-> to_uppercase_char(s[n])]

\* str::contains: pat occurs in s as a contiguous substring.
contains(s, pat) ==
    \E n \in 0..(Len(s) - Len(pat)) : SubSeq(s, n + 1, n + Len(pat)) = pat

\* chars().take(k).collect()
take(s, k) == SubSeq(s, 1, IF Len(s) < k THEN Len(s) ELSE k)

---------------------------------------------------------------------------
(* Abbreviation derivation.                                                *)

kw_ru == << "r","u" >>
kw_russian == << "r","u","s","s","i","a","n" >>
kw_us == << "u","s" >>
kw_english == << "e","n","g","l","i","s","h" >>
kw_ua == << "u","a" >>

RU == << "R","U" >>
EN == << "E","N" >>
UA == << "U","A" >>

\* A plausible slip: the keyword checks run in another order.
shorten_name_us_first(name) ==
    LET lower == to_lowercase(name) IN
    IF contains(lower, kw_us) \/ contains(lower, kw_english) THEN EN
    ELSE IF contains(lower, kw_ru) \/ contains(lower, kw_russian) THEN RU
    ELSE IF contains(lower, kw_ua) THEN UA
    ELSE to_uppercase(take(name, 2))

shorten_name(name) ==
    LET lower == to_lowercase(name) IN
    IF contains(lower, kw_ru) \/ contains(lower, kw_russian) THEN RU
    ELSE IF contains(lower, kw_us) \/ contains(lower, kw_english) THEN EN
    ELSE IF contains(lower, kw_ua) THEN UA
    ELSE to_uppercase(take(name, 2))

---------------------------------------------------------------------------
(* Icon rendering.  The glyph outlines come from the font library, so an   *)
(* image is modelled by its dimensions and the text rasterised into it.    *)

render_text_icon(text) == [width |-> ICON_SIZE, height |-> ICON_SIZE, text |-> text]

\* A plausible slip: the unused fourth byte of a pixel is not pushed.
render_icon_bgra_no_pad(text) ==
    LET img == render_text_icon(text) IN
    [text |-> img.text, len |-> img.width * img.height * (BytesPerPixel - 1)]

\* One b, g, r, 0 group is pushed for every pixel of the image.
render_icon_bgra(text) ==
    LET img == render_text_icon(text) IN
    [text |-> img.text, len |-> img.width * img.height * BytesPerPixel]

\* The loop of main that fills icon_cache: insert overwrites an equal key.
RECURSIVE build_cache(_, _)
build_cache(names, cache) ==
    IF names = << >> THEN cache
    ELSE LET name == Head(names)
             short == shorten_name(name)
             pixels == render_icon_bgra(short)
         IN build_cache(Tail(names),
                        [k \in (DOMAIN cache) \cup {name} |->
                            IF k = name THEN pixels ELSE cache[k]])

EmptyCache == [k \in {} |-> 0]

---------------------------------------------------------------------------
(* Layout names.                                                           *)

\* The names the server resolves the non-zero atoms to (get_atom_name).
AtomNames == << << "E","n","g","l","i","s","h"," ","(","U","S",")" >>,
                << "R","u","s","s","i","a","n" >> >>

Atoms == 1..Len(AtomNames)

\* "US", the entry pushed when no name was found.
DefaultName == << "U","S" >>

\* An Option is a sequence of at most one element.
None == << >>

Some(x) == << x >>

\* names.value_list.groups: None, or Some list of atoms in which 0 is "no atom".
RECURSIVE SeqsUpTo(_, _)
SeqsUpTo(S, n) ==
    IF n = 0 THEN { << >> }
    ELSE LET shorter == SeqsUpTo(S, n - 1) IN
         shorter \cup { Append(s, x) : s \in { t \in shorter : Len(t) = n - 1 }, x \in S }

GroupReplies == { None } \cup { Some(l) : l \in SeqsUpTo({0} \cup Atoms, MaxGroups) }

\* A plausible slip: a zero atom is skipped (continue) instead of ending the loop.
RECURSIVE resolve_atoms_skip_zero(_)
resolve_atoms_skip_zero(groups) ==
    IF groups = << >> THEN << >>
    ELSE IF Head(groups) = 0 THEN resolve_atoms_skip_zero(Tail(groups))
    ELSE << AtomNames[Head(groups)] >> \o resolve_atoms_skip_zero(Tail(groups))

\* The for loop of get_layout_names: stop at the first zero atom.
RECURSIVE resolve_atoms(_)
resolve_atoms(groups) ==
    IF groups = << >> THEN << >>
    ELSE IF Head(groups) = 0 THEN << >>
    ELSE << AtomNames[Head(groups)] >> \o resolve_atoms(Tail(groups))

get_layout_names(groups) ==
    LET res == IF groups = None THEN << >> ELSE resolve_atoms(groups[1]) IN
    IF res = << >> THEN << DefaultName >> ELSE res

\* A plausible slip: the index is clamped to the last element instead of checked.
get_clamped(v, idx) == IF idx < Len(v) THEN Some(v[idx + 1]) ELSE Some(v[Len(v)])

\* Vec::get: Some(element) when the index is in bounds, None otherwise.
get(v, idx) == IF idx < Len(v) THEN Some(v[idx + 1]) ELSE None

\* HashMap::get
cache_get(cache, name) == IF name \in DOMAIN cache THEN Some(cache[name]) ELSE None

\* The two nested if-lets of main: the buffer to draw for a group index, if any.
lookup(names, cache, idx) ==
    LET name == get(names, idx) IN
    IF name = None THEN None ELSE cache_get(cache, name[1])

---------------------------------------------------------------------------
(* Docking.                                                                *)

\* get_selection_owner at the n-th dock attempt.
selection_owner(n) == IF n >= tray_at THEN TrayWin ELSE NONE

\* The request of dock_window_to_tray that reports a protocol error, if any.
DockFailures == { "none", "intern_atom_tray", "get_selection_owner",
                  "intern_atom_opcode", "send_event" }

\* A plausible slip: the owner is not compared with NONE before the message is sent.
dock_window_to_tray_owner_unchecked(owner, win, fail) ==
    IF fail \in { "intern_atom_tray", "get_selection_owner" }
    THEN [ok |-> FALSE, sent |-> << >>, conn_err |-> TRUE]
    ELSE IF fail \in { "intern_atom_opcode", "send_event" }
    THEN [ok |-> FALSE, sent |-> << >>, conn_err |-> TRUE]
    ELSE [ok |-> TRUE, sent |-> << [to |-> owner, window |-> win] >>, conn_err |-> FALSE]

\* dock_window_to_tray: ok, the client messages sent, and whether the failing
\* request was reached.
dock_window_to_tray(owner, win, fail) ==
    IF fail \in { "intern_atom_tray", "get_selection_owner" }
    THEN [ok |-> FALSE, sent |-> << >>, conn_err |-> TRUE]
    ELSE IF owner = NONE
    THEN [ok |-> FALSE, sent |-> << >>, conn_err |-> FALSE]
    ELSE IF fail \in { "intern_atom_opcode", "send_event" }
    THEN [ok |-> FALSE, sent |-> << >>, conn_err |-> TRUE]
    ELSE [ok |-> TRUE, sent |-> << [to |-> owner, window |-> win] >>, conn_err |-> FALSE]

\* A plausible slip: a successful attempt does not leave the loop.
dock_loop_continues_no_break(ok, n) == n < max_retries

\* A plausible slip: the range of the loop is one too long.
dock_loop_continues_one_more(ok, n) == ~ok /\ n <= max_retries

\* for i in 1..=max_retries with break on Ok: whether another iteration follows
\* the n-th one.
dock_loop_continues(ok, n) == ~ok /\ n < max_retries

\* A plausible slip: the wait is not guarded, so it also follows the last attempt.
wait_before_retry_always(n) == TRUE

\* if i < max_retries { ...; thread::sleep(...) } in the Err arm of the n-th iteration.
wait_before_retry(n) == n < max_retries

\* A plausible slip: the window is shown whether or not it was docked.
after_dock_loop_unchecked(d) == "map"

\* if !docked { return Err(...) }, which follows the docking loop.
after_dock_loop(d) == IF ~d THEN "exited" ELSE "map"

---------------------------------------------------------------------------
(* Drawing.                                                                *)

\* The request of draw_icon that reports an error, if any.
DrawFailures == { "none", "generate_id", "create_gc", "put_image", "free_gc", "flush" }

\* A plausible slip: the result of free_gc is dropped instead of propagated.
draw_icon_free_error_dropped(pixels, fail) ==
    CASE fail = "generate_id" -> [ok |-> FALSE, created |-> 0, put |-> FALSE, freed |-> 0]
      [] fail = "create_gc"   -> [ok |-> FALSE, created |-> 0, put |-> FALSE, freed |-> 0]
      [] fail = "put_image"   -> [ok |-> FALSE, created |-> 1, put |-> FALSE, freed |-> 0]
      [] fail = "free_gc"     -> [ok |-> TRUE,  created |-> 1, put |-> TRUE,  freed |-> 0]
      [] fail = "flush"       -> [ok |-> FALSE, created |-> 1, put |-> TRUE,  freed |-> 1]
      [] OTHER                -> [ok |-> TRUE,  created |-> 1, put |-> TRUE,  freed |-> 1]

\* A plausible slip: the result of put_image is dropped instead of propagated.
draw_icon_put_error_dropped(pixels, fail) ==
    CASE fail = "generate_id" -> [ok |-> FALSE, created |-> 0, put |-> FALSE, freed |-> 0]
      [] fail = "create_gc"   -> [ok |-> FALSE, created |-> 0, put |-> FALSE, freed |-> 0]
      [] fail = "put_image"   -> [ok |-> TRUE,  created |-> 1, put |-> FALSE, freed |-> 1]
      [] fail = "free_gc"     -> [ok |-> FALSE, created |-> 1, put |-> TRUE,  freed |-> 0]
      [] fail = "flush"       -> [ok |-> FALSE, created |-> 1, put |-> TRUE,  freed |-> 1]
      [] OTHER                -> [ok |-> TRUE,  created |-> 1, put |-> TRUE,  freed |-> 1]

\* draw_icon: each request is followed by ?, so an error returns at once.
draw_icon(pixels, fail) ==
    CASE fail = "generate_id" -> [ok |-> FALSE, created |-> 0, put |-> FALSE, freed |-> 0]
      [] fail = "create_gc"   -> [ok |-> FALSE, created |-> 0, put |-> FALSE, freed |-> 0]
      [] fail = "put_image"   -> [ok |-> FALSE, created |-> 1, put |-> FALSE, freed |-> 0]
      [] fail = "free_gc"     -> [ok |-> FALSE, created |-> 1, put |-> TRUE,  freed |-> 0]
      [] fail = "flush"       -> [ok |-> FALSE, created |-> 1, put |-> TRUE,  freed |-> 1]
      [] OTHER                -> [ok |-> TRUE,  created |-> 1, put |-> TRUE,  freed |-> 1]

\* if let Some(pixels) = ... { draw_icon(..., pixels)?; }: what a step that
\* redraws `target` does to the window, the graphics contexts and main.
Redraw(target, fail) ==
    IF target = None
    THEN /\ fail = "none"
         /\ drawn' = << >>
         /\ pc' = "loop"
         /\ UNCHANGED << displayed, gc_live, error >>
    ELSE LET r == draw_icon(target[1], fail) IN
         /\ drawn' = << target[1] >>
         /\ displayed' = IF r.put THEN target ELSE displayed
         /\ gc_live' = gc_live + r.created - r.freed
         /\ pc' = IF r.ok THEN "loop" ELSE "exited"
         /\ error' = IF r.ok THEN error ELSE "Draw"

---------------------------------------------------------------------------
(* Events.                                                                 *)

NoEvent == [kind |-> "None", arg |-> 0]

GroupIndices == 0..MaxGroups

ExposeCounts == 0..MaxCount

\* The batch of Expose events whose redraws are counted.
ExposeBatch == << 2, 1, 0 >>

batch_next(c) ==
    IF batch_pos < Len(ExposeBatch) /\ c = ExposeBatch[batch_pos + 1] THEN batch_pos + 1
    ELSE IF c = ExposeBatch[1] THEN 1
    ELSE 0

\* A plausible slip: the arm redraws on every notification.
group_changed_always(new_group, cur) == TRUE

\* A plausible slip: the comparison is an ordering.
group_changed_greater(new_group, cur) == new_group > cur

\* A plausible slip, and the policy of discarding an index that is out of
\* bounds: such a notification does not change the current group.
group_changed_in_bounds_only(new_group, cur) ==
    new_group /= cur /\ new_group < Len(layout_names)

\* if new_group != current_group
group_changed(new_group, cur) == new_group /= cur

---------------------------------------------------------------------------
(* The state machine.                                                      *)

startup_vars == << layout_names, icon_cache, renders >>
dock_vars == << i, docked, attempts, waits, dock_conn_err, sent >>
loop_vars == << current_group, prev_group, event, drawn, displayed, gc_live,
                batch_pos, batch_draws >>
env_vars == << xkb_groups, tray_at >>

Init ==
    /\ pc = "connect"
    /\ error = "None"
    /\ xkb_groups \in GroupReplies
    /\ tray_at \in 1..(max_retries + 1)
    /\ layout_names = << >>
    /\ icon_cache = EmptyCache
    /\ renders = 0
    /\ i = 0
    /\ docked = FALSE
    /\ attempts = 0
    /\ waits = 0
    /\ dock_conn_err = FALSE
    /\ sent = << >>
    /\ mapped = FALSE
    /\ current_group = 0
    /\ prev_group = 0
    /\ event = NoEvent
    /\ drawn = << >>
    /\ displayed = None
    /\ gc_live = 0
    /\ batch_pos = 0
    /\ batch_draws = 0

\* x11rb::connect, xkb_use_extension, xkb_select_events.
Connect ==
    /\ pc = "connect"
    /\ \E ok \in BOOLEAN :
        /\ pc' = IF ok THEN "resolve" ELSE "exited"
        /\ error' = IF ok THEN error ELSE "Connection"
    /\ UNCHANGED << env_vars, startup_vars, dock_vars, mapped, loop_vars >>

\* let layout_names = get_layout_names(&conn)?
GetLayoutNames ==
    /\ pc = "resolve"
    /\ \E fail \in { "none", "xkb_get_names", "get_atom_name" } :
        /\ fail = "get_atom_name" =>
               /\ xkb_groups /= None
               /\ resolve_atoms(xkb_groups[1]) /= << >>
        /\ IF fail = "none"
           THEN /\ layout_names' = get_layout_names(xkb_groups)
                /\ pc' = "font"
                /\ error' = error
           ELSE /\ layout_names' = layout_names
                /\ pc' = "exited"
                /\ error' = "LayoutQuery"
    /\ UNCHANGED << env_vars, icon_cache, renders, dock_vars, mapped, loop_vars >>

\* std::fs::read(FONT_PATH) and FontRef::try_from_slice.
LoadFont ==
    /\ pc = "font"
    /\ \E ok \in BOOLEAN :
        /\ pc' = IF ok THEN "cache" ELSE "exited"
        /\ error' = IF ok THEN error ELSE "Font"
    /\ UNCHANGED << env_vars, startup_vars, dock_vars, mapped, loop_vars >>

\* for name in &layout_names { ... icon_cache.insert(name.clone(), pixels); }
BuildIconCache ==
    /\ pc = "cache"
    /\ icon_cache' = build_cache(layout_names, EmptyCache)
    /\ renders' = renders + Len(layout_names)
    /\ pc' = "window"
    /\ UNCHANGED << error, env_vars, layout_names, dock_vars, mapped, loop_vars >>

\* generate_id and create_window; the docking loop starts with i = 1.
CreateWindow ==
    /\ pc = "window"
    /\ \E ok \in BOOLEAN :
        /\ pc' = IF ok THEN "dock" ELSE "exited"
        /\ error' = IF ok THEN error ELSE "Window"
        /\ i' = IF ok THEN 1 ELSE i
    /\ UNCHANGED << env_vars, startup_vars, docked, attempts, waits, dock_conn_err,
                    sent, mapped, loop_vars >>

\* One iteration of the docking loop up to the sleep, and what follows the
\* loop when the iteration ends it.
DockAttempt ==
    /\ pc = "dock"
    /\ \E fail \in DockFailures :
        LET r == dock_window_to_tray(selection_owner(i), win_id, fail)
            d == docked \/ r.ok
            next == IF ~r.ok /\ wait_before_retry(i) THEN "sleep"
                    ELSE IF dock_loop_continues(r.ok, i) THEN "dock"
                    ELSE after_dock_loop(d)
        IN /\ (fail \in { "intern_atom_opcode", "send_event" }) => selection_owner(i) /= NONE
           /\ attempts' = attempts + 1
           /\ sent' = sent \o r.sent
           /\ dock_conn_err' = (dock_conn_err \/ r.conn_err)
           /\ docked' = d
           /\ pc' = next
           /\ i' = IF next = "dock" THEN i + 1 ELSE i
           /\ error' = IF next = "exited" THEN "NoTray" ELSE error
    /\ UNCHANGED << env_vars, startup_vars, waits, mapped, loop_vars >>

\* thread::sleep(500ms), then the next iteration if the range has one.
Sleep ==
    /\ pc = "sleep"
    /\ waits' = waits + 1
    /\ LET next == IF dock_loop_continues(FALSE, i) THEN "dock" ELSE after_dock_loop(docked)
       IN /\ pc' = next
          /\ i' = IF next = "dock" THEN i + 1 ELSE i
          /\ error' = IF next = "exited" THEN "NoTray" ELSE error
    /\ UNCHANGED << env_vars, startup_vars, docked, attempts, dock_conn_err,
                    sent, mapped, loop_vars >>

\* conn.map_window(win_id)?; conn.flush()?
MapWindow ==
    /\ pc = "map"
    /\ \E fail \in { "none", "map_window", "flush" } :
        /\ mapped' = (fail /= "map_window")
        /\ pc' = IF fail = "none" THEN "init" ELSE "exited"
        /\ error' = IF fail = "none" THEN error ELSE "Map"
    /\ UNCHANGED << env_vars, startup_vars, dock_vars, loop_vars >>

\* xkb_get_state failed.
GetStateError ==
    /\ pc = "init"
    /\ pc' = "exited"
    /\ error' = "State"
    /\ UNCHANGED << env_vars, startup_vars, dock_vars, mapped, loop_vars >>

\* The initial rendering: current_group is the queried group g.
InitialRender(g) ==
    /\ pc = "init"
    /\ current_group' = g
    /\ prev_group' = g
    /\ \E fail \in DrawFailures :
        Redraw(lookup(layout_names, icon_cache, g), fail)
    /\ UNCHANGED << env_vars, startup_vars, dock_vars, mapped, event,
                    batch_pos, batch_draws >>

\* conn.wait_for_event()? reports an error.
WaitError ==
    /\ pc = "loop"
    /\ pc' = "exited"
    /\ error' = "Wait"
    /\ UNCHANGED << env_vars, startup_vars, dock_vars, mapped, loop_vars >>

\* The XkbStateNotify arm, for an event whose group is new_group.
XkbStateNotify(new_group) ==
    /\ pc = "loop"
    /\ event' = [kind |-> "XkbStateNotify", arg |-> new_group]
    /\ prev_group' = current_group
    /\ batch_pos' = 0
    /\ batch_draws' = 0
    /\ IF group_changed(new_group, current_group)
       THEN /\ current_group' = new_group
            /\ \E fail \in DrawFailures :
                Redraw(lookup(layout_names, icon_cache, new_group), fail)
       ELSE /\ current_group' = current_group
            /\ Redraw(None, "none")
    /\ UNCHANGED << env_vars, startup_vars, dock_vars, mapped >>

\* A plausible slip: the Expose arm repairs an out-of-bounds current_group
\* by resetting it to the first layout.
Expose_resets_group(c) ==
    /\ pc = "loop"
    /\ event' = [kind |-> "Expose", arg |-> c]
    /\ prev_group' = current_group
    /\ current_group' = IF current_group < Len(layout_names) THEN current_group ELSE 0
    /\ IF c = 0
       THEN \E fail \in DrawFailures :
                Redraw(lookup(layout_names, icon_cache, current_group'), fail)
       ELSE Redraw(None, "none")
    /\ batch_pos' = batch_next(c)
    /\ batch_draws' = IF batch_next(c) = 0 THEN 0
                      ELSE IF batch_next(c) = 1 THEN Len(drawn')
                      ELSE batch_draws + Len(drawn')
    /\ UNCHANGED << env_vars, startup_vars, dock_vars, mapped >>

\* The Expose arm, for an event whose count is c.
Expose(c) ==
    /\ pc = "loop"
    /\ event' = [kind |-> "Expose", arg |-> c]
    /\ prev_group' = current_group
    /\ current_group' = current_group
    /\ IF c = 0
       THEN \E fail \in DrawFailures :
                Redraw(lookup(layout_names, icon_cache, current_group), fail)
       ELSE Redraw(None, "none")
    /\ batch_pos' = batch_next(c)
    /\ batch_draws' = IF batch_next(c) = 0 THEN 0
                      ELSE IF batch_next(c) = 1 THEN Len(drawn')
                      ELSE batch_draws + Len(drawn')
    /\ UNCHANGED << env_vars, startup_vars, dock_vars, mapped >>

\* A plausible slip: the default arm repaints the window.
OtherEvent_redraws ==
    /\ pc = "loop"
    /\ event' = [kind |-> "Other", arg |-> 0]
    /\ prev_group' = current_group
    /\ current_group' = current_group
    /\ batch_pos' = 0
    /\ batch_draws' = 0
    /\ \E fail \in DrawFailures :
           Redraw(lookup(layout_names, icon_cache, current_group), fail)
    /\ UNCHANGED << env_vars, startup_vars, dock_vars, mapped >>

\* The default arm: every other event.
OtherEvent ==
    /\ pc = "loop"
    /\ event' = [kind |-> "Other", arg |-> 0]
    /\ prev_group' = current_group
    /\ current_group' = current_group
    /\ batch_pos' = 0
    /\ batch_draws' = 0
    /\ Redraw(None, "none")
    /\ UNCHANGED << env_vars, startup_vars, dock_vars, mapped >>

Next ==
    \/ Connect
    \/ GetLayoutNames
    \/ LoadFont
    \/ BuildIconCache
    \/ CreateWindow
    \/ DockAttempt
    \/ Sleep
    \/ MapWindow
    \/ GetStateError
    \/ \E g \in GroupIndices : InitialRender(g)
    \/ WaitError
    \/ \E g \in GroupIndices : XkbStateNotify(g)
    \/ \E c \in ExposeCounts : Expose(c)
    \/ OtherEvent

Spec == Init /\ [][Next]_vars

---------------------------------------------------------------------------
(* The abbreviation applied to a bounded set of names: the cache is built  *)
(* for a single name, as if the server had reported it.                    *)

AbbrevAlphabet == { "r", "u", "s", "a", "U", "f" }

Russian == << "R","u","s","s","i","a","n" >>
RUSSIAN == << "R","U","S","S","I","A","N" >>
ru_keyboard == << "r","u","-","k","e","y","b","o","a","r","d" >>
US_International == << "U","S"," ","I","n","t","e","r","n","a","t","i","o","n","a","l" >>
english_UK == << "e","n","g","l","i","s","h"," ","(","U","K",")" >>
Ukrainian == << "U","k","r","a","i","n","i","a","n" >>
French == << "F","r","e","n","c","h" >>
Belarus == << "B","e","l","a","r","u","s" >>

AbbrevInputs ==
    { Russian, RUSSIAN, ru_keyboard, US_International, english_UK, Ukrainian,
      French, Belarus } \cup SeqsUpTo(AbbrevAlphabet, MaxNameLen)

InitAbbrev ==
    /\ pc = "cache"
    /\ error = "None"
    /\ xkb_groups = None
    /\ tray_at = 1
    /\ layout_names \in { << name >> : name \in AbbrevInputs }
    /\ icon_cache = EmptyCache
    /\ renders = 0
    /\ i = 0
    /\ docked = FALSE
    /\ attempts = 0
    /\ waits = 0
    /\ dock_conn_err = FALSE
    /\ sent = << >>
    /\ mapped = FALSE
    /\ current_group = 0
    /\ prev_group = 0
    /\ event = NoEvent
    /\ drawn = << >>
    /\ displayed = None
    /\ gc_live = 0
    /\ batch_pos = 0
    /\ batch_draws = 0

NextAbbrev == BuildIconCache

SpecAbbrev == InitAbbrev /\ [][NextAbbrev]_vars

---------------------------------------------------------------------------
(* Phases of main.                                                         *)

InEventLoop == pc = "loop" \/ (pc = "exited" /\ error \in { "Draw", "Wait" } /\ event /= NoEvent)

DockLoopDone ==
    \/ pc \in { "map", "init", "loop" }
    \/ pc = "exited" /\ error \in { "NoTray", "Map", "State", "Draw", "Wait" }

CacheBuilt ==
    \/ pc \in { "window", "dock", "sleep", "map", "init", "loop" }
    \/ pc = "exited" /\ error \in { "Window", "NoTray", "Map", "State", "Draw", "Wait" }

InBounds(idx) == idx < Len(layout_names)

\* The buffer the cache holds for the layout at an in-bounds index.
BufferOf(idx) == render_icon_bgra(shorten_name(layout_names[idx + 1]))

LastWas(kind) == InEventLoop /\ event.kind = kind

---------------------------------------------------------------------------
(* Claims.                                                                 *)

\* C1: whenever the last event delivered was LayoutChanged(k) with activeIndex
\* equal to k at delivery, that event made no draw invocation and activeIndex
\* is still k.
C1_RedundantNotificationNoDraw ==
    (LastWas("XkbStateNotify") /\ event.arg = prev_group)
        => (drawn = << >> /\ current_group = prev_group)

\* A redundant notification for a layout that has an icon was delivered.
C1_Witness ==
    /\ pc = "loop"
    /\ event = [kind |-> "XkbStateNotify", arg |-> prev_group]
    /\ InBounds(prev_group)
    /\ displayed = Some(BufferOf(prev_group))
    /\ drawn = << >>

\* C2 as stated: LayoutChanged(k) with activeIndex different from k makes
\* exactly one draw invocation and sets activeIndex to k, for every k a
\* notification can carry.
C2_AsStated ==
    (LastWas("XkbStateNotify") /\ event.arg /= prev_group)
        => (Len(drawn) = 1 /\ current_group = event.arg)

\* C2, amended: LayoutChanged(k) with activeIndex different from k and k within
\* the bounds of the layout names makes exactly one draw invocation, of the
\* cached buffer of layout k, and sets activeIndex to k.
C2_ChangeDrawsOnce ==
    (LastWas("XkbStateNotify") /\ event.arg /= prev_group /\ InBounds(event.arg))
        => (drawn = << BufferOf(event.arg) >> /\ current_group = event.arg)

\* A notification changed the active layout from one that has an icon to
\* another that has one.
C2_Witness ==
    /\ pc = "loop"
    /\ event.kind = "XkbStateNotify"
    /\ event.arg /= prev_group
    /\ InBounds(event.arg)
    /\ InBounds(prev_group)
    /\ current_group = event.arg
    /\ drawn = << BufferOf(event.arg) >>
    /\ displayed = Some(BufferOf(event.arg))

\* C3: an Expose event with a count other than 0 makes no draw invocation, one
\* with count 0 makes exactly one, of the buffer of the current activeIndex, and
\* so a batch of Expose events with counts 2, 1, 0 makes exactly one.
C3_AsStated ==
    /\ (LastWas("Expose") /\ event.arg /= 0) => drawn = << >>
    /\ (LastWas("Expose") /\ event.arg = 0) =>
           (Len(drawn) = 1 /\ drawn = lookup(layout_names, icon_cache, current_group))
    /\ (InEventLoop /\ batch_pos = Len(ExposeBatch)) => batch_draws = 1

\* C4: with the tray manager absent for the first k-1 dock attempts and present
\* from the k-th on (k <= max_retries), and no request of an attempt reporting a
\* protocol error, the attempts before the k-th fail, the k-th succeeds, docking
\* is reported successful, and the number of attempts stays k ever after.
C4_DocksOnKthAttempt ==
    (tray_at <= max_retries /\ ~dock_conn_err) =>
        /\ pc \in { "dock", "sleep" } => (~docked /\ attempts < tray_at)
        /\ docked => attempts = tray_at
        /\ DockLoopDone => (docked /\ attempts = tray_at /\ error /= "NoTray"
                            /\ sent = << [to |-> TrayWin, window |-> win_id] >>)

\* The tray manager appeared at the 4th attempt and the event loop runs.
C4_Witness ==
    /\ tray_at = 4
    /\ ~dock_conn_err
    /\ docked
    /\ attempts = 4
    /\ waits = 3
    /\ pc = "loop"
    /\ event /= NoEvent

\* C5: the docking loop makes at most max_retries attempts, each iteration
\* brings it nearer to that bound, and when every attempt has failed it has
\* made exactly max_retries attempts and main has returned the tray error.
C5_BoundedRetries ==
    /\ attempts <= max_retries
    /\ pc = "dock" => (1 <= i /\ i <= max_retries /\ attempts = i - 1)
    /\ pc = "sleep" => (i < max_retries /\ attempts = i)
    /\ (DockLoopDone /\ ~docked) =>
           (pc = "exited" /\ error = "NoTray" /\ attempts = max_retries)
    /\ error = "NoTray" => (pc = "exited" /\ ~docked /\ attempts = max_retries
                            /\ ~mapped /\ sent = << >>)

\* The tray manager never appeared and main returned after max_retries attempts.
C5_Witness ==
    /\ tray_at = max_retries + 1
    /\ pc = "exited"
    /\ error = "NoTray"
    /\ attempts = max_retries
    /\ ~dock_conn_err

\* What C6 says of a single state: the window is mapped, an icon was drawn,
\* an event was consumed or main is at the initial rendering or in the event
\* loop only when docked; and once the docking loop is over without a
\* successful attempt, main has returned the tray error.
C6_StateInv ==
    /\ mapped => docked
    /\ (drawn /= << >> \/ displayed /= None \/ gc_live /= 0) => docked
    /\ event /= NoEvent => docked
    /\ pc \in { "map", "init", "loop" } => docked
    /\ docked => Len(sent) = 1
    /\ (DockLoopDone /\ ~docked) => (pc = "exited" /\ error = "NoTray")

\* C6: the process never maps the window, draws an icon or consumes an event
\* while undocked; docked, once set, is never cleared; and when the dock
\* attempts are exhausted main returns the tray error and never enters the
\* event loop.
C6_NoHeadlessRun == [](C6_StateInv) /\ [][docked => docked']_vars

\* The tray manager never appeared, every attempt was made and main returned
\* without mapping the window.
C6_Witness ==
    /\ attempts = max_retries
    /\ ~docked
    /\ pc = "exited"
    /\ error = "NoTray"
    /\ ~mapped
    /\ event = NoEvent

\* C7: an index that is not within the layout names, received from a
\* notification or from the initial query, selects no name: no draw invocation
\* is made for it and main keeps running; and every draw invocation is of the
\* cached buffer of the layout at the in-bounds activeIndex.
C7_IndexBoundsChecked ==
    /\ (LastWas("XkbStateNotify") /\ ~InBounds(event.arg)) =>
           /\ drawn = << >>
           /\ pc = "loop" \/ error = "Wait"
    /\ (pc = "loop" /\ event = NoEvent /\ ~InBounds(current_group)) =>
           (drawn = << >> /\ displayed = None)
    /\ drawn /= << >> =>
           (InBounds(current_group) /\ drawn = << BufferOf(current_group) >>)

\* A notification carrying an out-of-bounds index arrived while a layout with
\* an icon was active, and the event loop goes on.
C7_Witness ==
    /\ pc = "loop"
    /\ event.kind = "XkbStateNotify"
    /\ ~InBounds(event.arg)
    /\ InBounds(prev_group)
    /\ current_group = event.arg
    /\ drawn = << >>
    /\ displayed = Some(BufferOf(prev_group))

\* What C8 says of a single state: once the cache is built it holds, for every
\* layout name, a buffer of 24*24*4 = 2304 bytes, and the lookup at every
\* in-bounds index succeeds.
C8_StateInv ==
    CacheBuilt =>
        /\ \A n \in 1..Len(layout_names) :
              /\ layout_names[n] \in DOMAIN icon_cache
              /\ lookup(layout_names, icon_cache, n - 1) /= None
        /\ \A name \in DOMAIN icon_cache :
              /\ icon_cache[name].len = 2304
              /\ icon_cache[name].len = ICON_SIZE * ICON_SIZE * 4
              /\ \E n \in 1..Len(layout_names) : layout_names[n] = name

\* C8: the cache is complete when the event loop starts, every buffer has
\* width*height*4 bytes, and neither the cache nor the layout names change
\* once the cache is built.
C8_CacheComplete ==
    /\ [](C8_StateInv)
    /\ [][CacheBuilt => (icon_cache' = icon_cache /\ layout_names' = layout_names)]_vars

\* The event loop has handled an event with two distinct layouts cached.
C8_Witness ==
    /\ pc = "loop"
    /\ event /= NoEvent
    /\ Len(layout_names) = 2
    /\ Cardinality(DOMAIN icon_cache) = 2

\* C9: whenever draw_icon has returned, with Ok or with an error, every
\* graphics context it created has been freed.
C9_AsStated == gc_live = 0

\* C10: the abbreviation of each name the spec lists is the one it lists,
\* whatever the case of the letters.
C10_AsStated ==
    CacheBuilt =>
        \A name \in DOMAIN icon_cache :
            /\ name \in { Russian, RUSSIAN, ru_keyboard } => icon_cache[name].text = RU
            /\ name \in { US_International, english_UK } => icon_cache[name].text = EN
            /\ name = Ukrainian => icon_cache[name].text = UA
            /\ name = French => icon_cache[name].text = << "F","R" >>

\* What C11 says of a single state: once the event loop has delivered an
\* event, main is in the loop or has returned the error of wait_for_event or
\* of draw_icon; while it is in the loop nothing has failed; and it returned a
\* draw error only from a step that invoked draw_icon.
C11_StateInv ==
    /\ event /= NoEvent =>
           (pc = "loop" \/ (pc = "exited" /\ error \in { "Wait", "Draw" }))
    /\ pc = "loop" => (error = "None" /\ gc_live = 0)
    /\ gc_live /= 0 => (pc = "exited" /\ error = "Draw")
    /\ error = "Draw" => (pc = "exited" /\ drawn /= << >>)

\* C11: the event loop does not end on its own: a step taken in the loop
\* leaves main in the loop with no error, or ends main with the error of
\* wait_for_event or of a draw, and a failed draw always ends it.
C11_LoopOnlyExitsOnError ==
    /\ [](C11_StateInv)
    /\ [][pc = "loop" =>
            \/ pc' = "loop" /\ error' = "None"
            \/ pc' = "exited" /\ error' \in { "Wait", "Draw" }]_vars

\* A whole batch of Expose events was handled after a layout change and the
\* loop is still running.
C11_Witness ==
    /\ pc = "loop"
    /\ error = "None"
    /\ batch_pos = Len(ExposeBatch)
    /\ batch_draws = 1
    /\ current_group /= 0

\* The group list of the reply, empty when the reply has none.
ReplyAtoms == IF xkb_groups = None THEN << >> ELSE xkb_groups[1]

\* The number of atoms that precede the first zero atom of the reply.
AtomsBeforeZero ==
    IF \E n \in 1..Len(ReplyAtoms) : ReplyAtoms[n] = 0
    THEN (CHOOSE n \in 1..Len(ReplyAtoms) :
              /\ ReplyAtoms[n] = 0
              /\ \A m \in 1..(n - 1) : ReplyAtoms[m] /= 0) - 1
    ELSE Len(ReplyAtoms)

NamesResolved == pc \notin { "connect", "resolve" } /\ error \notin { "Connection", "LayoutQuery" }

\* C12: when the query succeeded the layout names are the names of exactly the
\* atoms before the first zero atom, in order, or the single default entry
\* when there is none, and so never empty; when the query or a name
\* resolution failed, main returned the error and holds no layout list.
C12_ResolverResult ==
    /\ NamesResolved =>
           /\ layout_names /= << >>
           /\ IF AtomsBeforeZero = 0
              THEN layout_names = << DefaultName >>
              ELSE /\ Len(layout_names) = AtomsBeforeZero
                   /\ \A n \in 1..AtomsBeforeZero :
                          layout_names[n] = AtomNames[ReplyAtoms[n]]
    /\ error = "LayoutQuery" => (pc = "exited" /\ layout_names = << >>)

\* The reply held a zero atom followed by a named one: the named atom was left
\* out and the default entry returned.
C12_Witness ==
    /\ NamesResolved
    /\ ReplyAtoms = << 0, 1 >>
    /\ layout_names = << DefaultName >>
    /\ pc = "loop"

\* The distinct names of the resolved sequence.
DistinctNames == { layout_names[n] : n \in 1..Len(layout_names) }

\* C13: while the cache is built the renderer is invoked exactly once for each
\* distinct layout name, also when a name occurs more than once.
C13_AsStated == CacheBuilt => renders = Cardinality(DistinctNames)

\* Whether the lower-cased name holds the keyword.
Has(name, kw) == contains(to_lowercase(name), kw)

C15_WaitsBetweenAttempts ==
    /\ pc \in { "connect", "resolve", "font", "cache", "window" } =>
           (waits = 0 /\ attempts = 0)
    /\ pc = "dock" => waits = attempts
    /\ pc = "sleep" => (waits = attempts - 1 /\ ~docked)
    /\ DockLoopDone => waits = attempts - 1
    /\ error = "NoTray" => (attempts = max_retries /\ waits = 9)

\* All ten attempts failed, one of them through a protocol error, and nine
\* waits were made.
C15_Witness ==
    /\ pc = "exited"
    /\ error = "NoTray"
    /\ dock_conn_err
    /\ tray_at <= max_retries
    /\ attempts = max_retries
    /\ waits = 9

\* A step of the event loop that delivered an event.
EventStep == pc = "loop" /\ error' /= "Wait" /\ event'.kind /= "None"

\* C16: activeIndex changes only when a LayoutChanged event carries an index
\* that differs from it; Expose events and all other events leave it as it
\* was; and no event changes the layout names or the icon cache.
C16_ActiveIndexFrame ==
    /\ [][pc = "loop" =>
            /\ current_group' /= current_group =>
                   /\ event'.kind = "XkbStateNotify"
                   /\ event'.arg = current_group'
            /\ layout_names' = layout_names
            /\ icon_cache' = icon_cache]_vars
    /\ [][(EventStep /\ event'.kind \in { "Expose", "Other" }) =>
            current_group' = current_group]_vars
    /\ []((LastWas("Expose") \/ LastWas("Other")) => current_group = prev_group)

\* An Expose event with count 0 repainted while activeIndex stayed at a
\* layout other than the first.
C16_Witness ==
    /\ pc = "loop"
    /\ event = [kind |-> "Expose", arg |-> 0]
    /\ current_group = prev_group
    /\ current_group /= 0
    /\ drawn /= << >>

\* C17: an event that is neither LayoutChanged nor Expose makes no draw
\* invocation, changes nothing of the program's state, and leaves main in the
\* loop.
C17_OtherEventsIgnored ==
    /\ [][(EventStep /\ event'.kind = "Other") =>
            /\ pc' = "loop"
            /\ drawn' = << >>
            /\ UNCHANGED << error, layout_names, icon_cache, renders, dock_vars, mapped,
                            current_group, displayed, gc_live >>]_vars
    /\ [](LastWas("Other") =>
            (drawn = << >> /\ current_group = prev_group /\ (pc = "loop" \/ error = "Wait")))

\* An event of another kind arrived while an icon was displayed, and the loop
\* goes on.
C17_Witness ==
    /\ pc = "loop"
    /\ event.kind = "Other"
    /\ drawn = << >>
    /\ displayed /= None
    /\ InBounds(current_group)

\* C18: no embedding message is sent by an attempt that found no owner of
\* the tray selection; every message sent goes to the owner and carries the
\* indicator window; and over the whole retry loop at most one attempt
\* succeeds, so at most one message is ever sent.
C18_OneEmbeddingRequest ==
    /\ Len(sent) <= 1
    /\ \A n \in 1..Len(sent) :
           /\ sent[n].to /= NONE
           /\ sent[n].to = TrayWin
           /\ sent[n].window = win_id
    /\ attempts < tray_at => (sent = << >> /\ ~docked)
    /\ docked <=> Len(sent) = 1
    /\ sent /= << >> => (attempts >= tray_at /\ selection_owner(attempts) = TrayWin)

\* Two attempts found no owner and sent nothing, the third one sent the
\* request, and the event loop runs.
C18_Witness ==
    /\ tray_at = 3
    /\ attempts = 3
    /\ ~dock_conn_err
    /\ sent = << [to |-> TrayWin, window |-> win_id] >>
    /\ pc = "loop"

\* C19: whenever main waits for the next event with activeIndex within the
\* layout names, the buffer last drawn into the window is the cached buffer of
\* the layout at activeIndex.
C19_DisplayConsistent ==
    (pc = "loop" /\ InBounds(current_group)) =>
        /\ displayed = Some(BufferOf(current_group))
        /\ displayed = lookup(layout_names, icon_cache, current_group)

\* The active layout went from out of bounds back to a layout that has an
\* icon, other than the first, and the window shows it.
C19_Witness ==
    /\ pc = "loop"
    /\ event.kind = "XkbStateNotify"
    /\ ~InBounds(prev_group)
    /\ InBounds(current_group)
    /\ current_group /= 0
    /\ displayed = Some(BufferOf(current_group))

\* C20: a LayoutChanged(k) with k out of bounds and different from
\* activeIndex is not discarded: activeIndex becomes k with no draw; while
\* activeIndex is out of bounds an Expose event makes no draw invocation and
\* the window keeps the buffer it had; and activeIndex comes back in bounds
\* only through a LayoutChanged event carrying an in-bounds index.
C20_OutOfBoundsStored ==
    /\ []((LastWas("XkbStateNotify") /\ ~InBounds(event.arg) /\ event.arg /= prev_group)
            => (current_group = event.arg /\ drawn = << >>))
    /\ []((LastWas("Expose") /\ ~InBounds(current_group)) => drawn = << >>)
    /\ [][(pc = "loop" /\ ~InBounds(current_group')) => displayed' = displayed]_vars
    /\ [][(pc = "loop" /\ ~InBounds(current_group) /\ InBounds(current_group')) =>
            /\ event'.kind = "XkbStateNotify"
            /\ event'.arg = current_group']_vars

\* After an out-of-bounds notification an Expose event with count 0 arrived:
\* nothing was drawn and the window still shows the previous layout's icon.
C20_Witness ==
    /\ pc = "loop"
    /\ event = [kind |-> "Expose", arg |-> 0]
    /\ ~InBounds(current_group)
    /\ drawn = << >>
    /\ Len(layout_names) = 2
    /\ displayed = Some(BufferOf(1))

=============================================================================
